---- MODULE Spec2Model ----
(***************************************************************************)
(* Model of wrappers/gym_wrappers.py: the FrameBuffer wrapper (a rolling   *)
(* history of the last n_frames observations) and EnvPool (n_envs copies   *)
(* of one template environment behind a batched reset/step interface).     *)
(*                                                                         *)
(* The template handed to EnvPool is a FrameBuffer around one simulator    *)
(* whose observations are flat vectors of `feat` numbers.  Numbers are     *)
(* float64 values on a grid of half float32-ulps, so that the float32      *)
(* arrays of the pool (dtype=np.float32) round what is stored in them.     *)
(* numpy arrays live in `mem`, addressed by reference, so that a returned  *)
(* array is either a copy or an alias of a pool array.                     *)
(***************************************************************************)
EXTENDS Integers, Sequences, FiniteSets, TLC

VARIABLES
    n_envs,       \* EnvPool.n_envs
    n_frames,     \* FrameBuffer's n_frames (length of the history axis)
    feat,         \* length of the simulator's flat observation vector
    sim,          \* simulator objects: reference -> [cur, ended]
    initial_env,  \* EnvPool.initial_env, the template FrameBuffer
    envs,         \* EnvPool.envs: sequence of FrameBuffer objects
    mem,          \* numpy arrays of the pool and of its caller: reference -> value
    _states,      \* EnvPool._states  (reference into mem)
    _rewards,     \* EnvPool._rewards (reference into mem)
    _dones,       \* EnvPool._dones   (reference into mem)
    ret,          \* what the last call returned to the caller (references)
    kept,         \* references the caller still holds from earlier calls
    call,         \* the last call: its name, its arguments, what it did per slot
    episode,      \* per slot: where its environment is in its episode
    base_shape,   \* env.observation_space.shape of the wrapped simulator
    fb_shape,     \* shape of FrameBuffer.framebuffer
    space_shape,  \* FrameBuffer.observation_space.shape
    out_shape,    \* shape of the observation the wrapper returned last
    image,        \* PreprocessImage: its arguments, one resized pixel, its output
    history,      \* what the env wrapped by one FrameBuffer returned since its
                  \* last reset, newest first
    instances     \* the environment objects EnvPool made: the one in each slot,
                  \* all it ever made, the ones close() was called on

poolVars  == <<n_envs, n_frames, feat, sim, initial_env, envs, mem,
               _states, _rewards, _dones, ret, kept, call, episode>>
shapeVars == <<base_shape, fb_shape, space_shape, out_shape>>
auxVars   == <<image, history, instances>>
vars      == <<poolVars, shapeVars, auxVars>>

(***************************************************************************)
(* Bounds of the exploration.                                              *)
(***************************************************************************)
MaxEnvs   == 2   \* n_envs ranges over 1..MaxEnvs
MaxFrames == 2   \* n_frames ranges over 1..MaxFrames
MaxFeat   == 2   \* feat ranges over 1..MaxFeat
MaxCells  == 4   \* n_envs * n_frames * feat is at most MaxCells
MaxCopyCells == 2 \* n_envs * n_frames * feat where the caller writes into its arrays
MaxRank   == 3   \* rank of a base observation shape (shape specification)
MaxDim    == 3   \* size of one axis of a base observation shape
MaxSide   == 2   \* height and width of an image, raw and resized
MaxSteps  == 3   \* steps of one FrameBuffer between two resets
MaxRecreate == 2 \* calls of recreate_envs after construction

NoRef  == 0 - 1  \* no array (Python None)
NoAct  == 0 - 1  \* no action (a reset)
Poison == 0 - 1  \* the value a caller writes into an array it was handed

Min(a, b) == IF a < b THEN a ELSE b

RECURSIVE Prod(_)
Prod(s) == IF s = <<>> THEN 1 ELSE Head(s) * Prod(Tail(s))

(***************************************************************************)
(* Numbers.  A float64 number is an integer count of half float32-ulps;    *)
(* astype(float32) rounds to the nearest even count, ties to the even      *)
(* mantissa.                                                               *)
(***************************************************************************)
F32(v) ==
    IF v % 2 = 0 THEN v
    ELSE IF ((v - 1) \div 2) % 2 = 0 THEN v - 1 ELSE v + 1

\* the numbers the simulator emits: 1 is not a float32 number (it is
\* rounded to 0), 2 is one
Vals    == {1, 2}

\* the actions of the simulator
Actions == {0, 1}

\* the flat observation vectors of f numbers the simulator emits: one for
\* each number v, neighbouring entries different
Ramp(v, f) == [x \in 1 .. f |-> ((v + x) % Cardinality(Vals)) + 1]
Frames(f)  == {Ramp(v, f) : v \in Vals}

\* np.zeros(shape) for one frame of f numbers
ZeroFrame(f) == [x \in 1 .. f |-> 0]

\* a 2-d array (rows of numbers) stored into a float32 array
F32Mat(m) == [x \in 1 .. Len(m) |-> [y \in 1 .. Len(m[x]) |-> F32(m[x][y])]]

(***************************************************************************)
(* The simulator behind the wrappers (gym's Env): reset() starts an        *)
(* episode at some observation, step(action) moves to some observation     *)
(* and may end the episode.  What it answers is an input of the model: an  *)
(* answer to step is the observation, whether the episode ends, and the    *)
(* observation (another one) the reset after that end starts at.           *)
(***************************************************************************)
Resp(f) ==
    {[obs  |-> Ramp(v, f),
      done |-> d,
      robs |-> Ramp(IF d THEN (v % Cardinality(Vals)) + 1 ELSE v, f)] :
        v \in Vals, d \in BOOLEAN}

SimReward(action, obs) == action + 1

\* the info object of a step: it tells the step it belongs to
SimInfo(action, rp) == [action |-> action, obs |-> rp.obs]

\* env.reset() of the simulator at reference e
SimReset(heap, e, robs) ==
    [heap |-> [heap EXCEPT ![e] = [cur |-> robs, ended |-> FALSE]],
     obs  |-> robs]

\* env.step(action) of the simulator at reference e
SimStep(heap, e, action, rp) ==
    [heap  |-> [heap EXCEPT ![e] = [cur |-> rp.obs, ended |-> rp.done]],
     obs   |-> rp.obs,
     r     |-> SimReward(action, rp.obs),
     done  |-> rp.done,
     info  |-> SimInfo(action, rp),
     after |-> heap[e].ended,
     calls |-> <<[op |-> "step", action |-> action]>>]

(***************************************************************************)
(* FrameBuffer (lines 46-83).  An object is [framebuffer, env]: the        *)
(* (n_frames, feat) history array and the reference of the wrapped env.    *)
(***************************************************************************)
\* np.zeros_like(self.framebuffer)
ZerosLike(fb) == [k \in 1 .. Len(fb) |-> [x \in 1 .. Len(fb[k]) |-> 0]]

\* update_buffer putting the new observation last and dropping the first
update_buffer_Append(fb, obs) == SubSeq(fb, 2, Len(fb)) \o <<obs>>

\* np.vstack([obs[None], self.framebuffer[:-1]])
update_buffer(fb, obs) == <<obs>> \o SubSeq(fb, 1, Len(fb) - 1)

\* np.transpose(x, shape_dims).reshape(result_shape) for a flat base shape:
\* (n_frames, feat) -> (feat, n_frames)
reshape_fn(fb) ==
    IF fb = <<>> THEN <<>>
    ELSE [x \in 1 .. Len(fb[1]) |-> [k \in 1 .. Len(fb) |-> fb[k][x]]]

\* FrameBuffer.__init__(env, n_frames)
FrameBuffer_init(e, k, f) ==
    [framebuffer |-> [j \in 1 .. k |-> ZeroFrame(f)], env |-> e]

\* FrameBuffer.reset() that does not zero the buffer
FrameBuffer_reset_NoZero(self, heap, robs) ==
    LET inner  == SimReset(heap, self.env, robs)
        fb     == update_buffer(self.framebuffer, inner.obs)
    IN  [self |-> [self EXCEPT !.framebuffer = fb],
         heap |-> inner.heap,
         obs  |-> reshape_fn(fb),
         init |-> inner.obs]

\* FrameBuffer.reset()
FrameBuffer_reset(self, heap, robs) ==
    LET zeroed == ZerosLike(self.framebuffer)
        inner  == SimReset(heap, self.env, robs)
        fb     == update_buffer(zeroed, inner.obs)
    IN  [self |-> [self EXCEPT !.framebuffer = fb],
         heap |-> inner.heap,
         obs  |-> reshape_fn(fb),
         init |-> inner.obs]

\* FrameBuffer.step(action) that steps the wrapped environment twice
FrameBuffer_step_Twice(self, heap, action, rp) ==
    LET first == SimStep(heap, self.env, action, rp)
        inner == SimStep(first.heap, self.env, action, rp)
        fb    == update_buffer(self.framebuffer, inner.obs)
    IN  [self  |-> [self EXCEPT !.framebuffer = fb],
         heap  |-> inner.heap,
         obs   |-> reshape_fn(fb),
         r     |-> inner.r,
         done  |-> inner.done,
         info  |-> inner.info,
         after |-> first.after,
         calls |-> first.calls \o inner.calls]

\* FrameBuffer.step(action); `calls` is what it asked of the wrapped
\* environment
FrameBuffer_step(self, heap, action, rp) ==
    LET inner == SimStep(heap, self.env, action, rp)
        fb    == update_buffer(self.framebuffer, inner.obs)
    IN  [self  |-> [self EXCEPT !.framebuffer = fb],
         heap  |-> inner.heap,
         obs   |-> reshape_fn(fb),
         r     |-> inner.r,
         done  |-> inner.done,
         info  |-> inner.info,
         after |-> inner.after,
         calls |-> inner.calls]

\* self.env.step / self.env.reset raising: the simulator is left as it was
\* or where the call had brought it
SimRaises(before, after, early) == IF early THEN before ELSE after

\* FrameBuffer.step(action) when self.env.step raises (line 77): the buffer
\* is not updated
FrameBuffer_step_raises(self, heap, action, rp, early) ==
    [self |-> self,
     heap |-> SimRaises(heap, SimStep(heap, self.env, action, rp).heap, early)]

\* FrameBuffer.reset() when self.env.reset raises (line 72): the buffer was
\* zeroed (line 71) and is not updated
FrameBuffer_reset_raises(self, heap, robs, early) ==
    [self |-> [self EXCEPT !.framebuffer = ZerosLike(self.framebuffer)],
     heap |-> SimRaises(heap, SimReset(heap, self.env, robs).heap, early)]

(***************************************************************************)
(* numpy arrays by reference.                                              *)
(***************************************************************************)
\* the reference of a newly allocated array: the least one not in use
Fresh(used) ==
    CHOOSE r \in 0 .. Cardinality(used) :
        r \notin used /\ \A q \in 0 .. r - 1 : q \in used

\* arr.copy(): a new array with the elements of the array at ref
ArrayCopy(m, ref, used) ==
    LET new == Fresh(used)
    IN  [ref |-> new, mem |-> [x \in DOMAIN m \cup {new} |->
                                  IF x = new THEN m[ref] ELSE m[x]]]

\* a new array with value v
ArrayNew(m, v, used) ==
    LET new == Fresh(used)
    IN  [ref |-> new, mem |-> [x \in DOMAIN m \cup {new} |->
                                  IF x = new THEN v ELSE m[x]]]

\* what the garbage collector leaves: the arrays somebody refers to
Collect(m, live) == [x \in (DOMAIN m) \cap live |-> m[x]]

(***************************************************************************)
(* EnvPool (lines 86-129).                                                 *)
(***************************************************************************)
\* copy(self.initial_env): a new wrapper object with the attributes of the
\* template, the reference of the wrapped env among them
CopyEnv(template) == template

\* what slot j's environment is: its history and its simulator's state
EnvView(es, heap, j) == [framebuffer |-> es[j].framebuffer, sim |-> heap[es[j].env]]

\* the other slots whose environment differs between (es1, heap1) and (es2, heap2)
OthersChanged(es1, heap1, es2, heap2, i) ==
    {j \in (1 .. Len(es1)) \ {i} : EnvView(es1, heap1, j) # EnvView(es2, heap2, j)}

\* EnvPool.recreate_envs (close() closes the previous environments)
recreate_envs(template, n) == [i \in 1 .. n |-> CopyEnv(template)]

\* The objects in self.envs by identity: `ids` names the one in each slot,
\* `created` all that copy() ever made, `closed` those whose close() ran.
Range(f) == {f[x] : x \in DOMAIN f}
NoInstances == [ids |-> <<>>, created |-> {}, closed |-> {}]

\* EnvPool.close (lines 124-126)
EnvPool_close(inst) == [inst EXCEPT !.closed = @ \cup Range(inst.ids)]

\* recreate_envs that does not close the environments it replaces
EnvPool_recreate_envs_NoClose(inst, n) ==
    LET new == [i \in 1 .. n |-> Cardinality(inst.created) + i]
    IN  [ids |-> new, created |-> inst.created \cup Range(new), closed |-> inst.closed]

\* EnvPool.recreate_envs (lines 100-102), by identity: close(), then n new
\* objects
EnvPool_recreate_envs(inst, n) ==
    LET old == EnvPool_close(inst)
        new == [i \in 1 .. n |-> Cardinality(old.created) + i]
    IN  [ids |-> new, created |-> old.created \cup Range(new), closed |-> old.closed]

\* Where an environment is in its episode: "active" (no step of it has
\* returned done since it was last stepped), "ended" (its last step returned
\* done), "restarted" (reset once since that step), "again" (reset more than
\* once since that step).
AfterStep(done) == IF done THEN "ended" ELSE "active"
AfterReset(was) ==
    IF was = "ended" THEN "restarted"
    ELSE IF was = "active" THEN "active" ELSE "again"

\* what a step finds: an environment that "ended" and was not reset, one
\* that was reset "again" after the reset that followed its end, or an
\* "active" one
Before(was) == IF was \in {"ended", "again"} THEN was ELSE "active"

\* one round of the loop of EnvPool.reset (lines 108-109)
ResetSlot(st, i, robs) ==
    LET res == FrameBuffer_reset(st.envs[i], st.sim, robs)
        es  == [st.envs EXCEPT ![i] = res.self]
    IN  [envs    |-> es,
         sim     |-> res.heap,
         states  |-> [st.states EXCEPT ![i] = F32Mat(res.obs)],
         rewards |-> st.rewards,
         dones   |-> st.dones,
         episode |-> [st.episode EXCEPT ![i] = AfterReset(st.episode[i])],
         trace   |-> Append(st.trace,
                        [slot |-> i, action |-> NoAct, obs |-> <<>>, r |-> 0,
                         done |-> FALSE, after |-> FALSE, reset |-> TRUE,
                         before |-> Before(st.episode[i]),
                         robs |-> res.obs, init |-> res.init,
                         raised |-> FALSE,
                         changed |-> OthersChanged(st.envs, st.sim, es, res.heap, i)])]

\* the loop of EnvPool.reset resetting no environment
ResetLoop_None(st, i, robs) == st

RECURSIVE ResetLoop(_, _, _)
ResetLoop(st, i, robs) ==
    IF i > Len(st.envs) THEN st
    ELSE ResetLoop(ResetSlot(st, i, robs[i]), i + 1, robs)

\* the state arrays EnvPool.reset allocates (lines 105-107)
ZeroStates(n, k, f) == [i \in 1 .. n |-> [x \in 1 .. f |-> [j \in 1 .. k |-> 0]]]
ZeroRewards(n)      == [i \in 1 .. n |-> 0]
ZeroDones(n)        == [i \in 1 .. n |-> FALSE]

\* StepSlot with the reset observation not stored: the terminal observation
\* of the step stays in the slot
StepSlot_KeepTerminal(st, i, action, rp) ==
    LET stepped == FrameBuffer_step(st.envs[i], st.sim, action, rp)
        again   == FrameBuffer_reset(stepped.self, stepped.heap, rp.robs)
        es      == [st.envs EXCEPT ![i] = IF stepped.done THEN again.self
                                          ELSE stepped.self]
        heap    == IF stepped.done THEN again.heap ELSE stepped.heap
    IN  [envs    |-> es,
         sim     |-> heap,
         states  |-> [st.states EXCEPT ![i] = F32Mat(stepped.obs)],
         rewards |-> [st.rewards EXCEPT ![i] = F32(stepped.r)],
         dones   |-> [st.dones EXCEPT ![i] = stepped.done],
         episode |-> [st.episode EXCEPT ![i] =
                         IF stepped.done THEN AfterReset(AfterStep(stepped.done))
                         ELSE AfterStep(stepped.done)],
         trace   |-> Append(st.trace,
                        [slot |-> i, action |-> action, obs |-> stepped.obs,
                         r |-> stepped.r, done |-> stepped.done,
                         after |-> stepped.after, reset |-> stepped.done,
                         before |-> Before(st.episode[i]),
                         robs |-> IF stepped.done THEN again.obs ELSE <<>>,
                         init |-> IF stepped.done THEN again.init ELSE <<>>,
                         raised |-> FALSE,
                         changed |-> OthersChanged(st.envs, st.sim, es, heap, i)])]

\* StepSlot with a done flag that, once set, stays set, and a reward that
\* the reset clears
StepSlot_ResetOverwrites(st, i, action, rp) ==
    LET stepped == FrameBuffer_step(st.envs[i], st.sim, action, rp)
        again   == FrameBuffer_reset(stepped.self, stepped.heap, rp.robs)
        es      == [st.envs EXCEPT ![i] = IF stepped.done THEN again.self
                                          ELSE stepped.self]
        heap    == IF stepped.done THEN again.heap ELSE stepped.heap
    IN  [envs    |-> es,
         sim     |-> heap,
         states  |-> [st.states EXCEPT ![i] =
                         IF ~stepped.done THEN F32Mat(stepped.obs)
                         ELSE F32Mat(again.obs)],
         rewards |-> [st.rewards EXCEPT ![i] =
                         IF stepped.done THEN 0 ELSE F32(stepped.r)],
         dones   |-> [st.dones EXCEPT ![i] = st.dones[i] \/ stepped.done],
         episode |-> [st.episode EXCEPT ![i] =
                         IF stepped.done THEN AfterReset(AfterStep(stepped.done))
                         ELSE AfterStep(stepped.done)],
         trace   |-> Append(st.trace,
                        [slot |-> i, action |-> action, obs |-> stepped.obs,
                         r |-> stepped.r, done |-> stepped.done,
                         after |-> stepped.after, reset |-> stepped.done,
                         before |-> Before(st.episode[i]),
                         robs |-> IF stepped.done THEN again.obs ELSE <<>>,
                         init |-> IF stepped.done THEN again.init ELSE <<>>,
                         raised |-> FALSE,
                         changed |-> OthersChanged(st.envs, st.sim, es, heap, i)])]

\* StepSlot with no reset of an environment whose step returns done
StepSlot_NoAutoReset(st, i, action, rp) ==
    LET stepped == FrameBuffer_step(st.envs[i], st.sim, action, rp)
        es      == [st.envs EXCEPT ![i] = stepped.self]
    IN  [envs    |-> es,
         sim     |-> stepped.heap,
         states  |-> [st.states EXCEPT ![i] = F32Mat(stepped.obs)],
         rewards |-> [st.rewards EXCEPT ![i] = F32(stepped.r)],
         dones   |-> [st.dones EXCEPT ![i] = stepped.done],
         episode |-> [st.episode EXCEPT ![i] = AfterStep(stepped.done)],
         trace   |-> Append(st.trace,
                        [slot |-> i, action |-> action, obs |-> stepped.obs,
                         r |-> stepped.r, done |-> stepped.done,
                         after |-> stepped.after, reset |-> FALSE,
                         before |-> Before(st.episode[i]),
                         robs |-> <<>>, init |-> <<>>,
                         raised |-> FALSE,
                         changed |-> OthersChanged(st.envs, st.sim, es,
                                                   stepped.heap, i)])]

\* StepSlot whose reset after a done pushes the initial observation on
\* top of the frames of the ended episode
StepSlot_ResetKeepsFrames(st, i, action, rp) ==
    LET stepped == FrameBuffer_step(st.envs[i], st.sim, action, rp)
        again   == FrameBuffer_reset_NoZero(stepped.self, stepped.heap, rp.robs)
        es      == [st.envs EXCEPT ![i] = IF stepped.done THEN again.self
                                          ELSE stepped.self]
        heap    == IF stepped.done THEN again.heap ELSE stepped.heap
    IN  [envs    |-> es,
         sim     |-> heap,
         states  |-> [st.states EXCEPT ![i] =
                         IF ~stepped.done THEN F32Mat(stepped.obs)
                         ELSE F32Mat(again.obs)],
         rewards |-> [st.rewards EXCEPT ![i] = F32(stepped.r)],
         dones   |-> [st.dones EXCEPT ![i] = stepped.done],
         episode |-> [st.episode EXCEPT ![i] =
                         IF stepped.done THEN AfterReset(AfterStep(stepped.done))
                         ELSE AfterStep(stepped.done)],
         trace   |-> Append(st.trace,
                        [slot |-> i, action |-> action, obs |-> stepped.obs,
                         r |-> stepped.r, done |-> stepped.done,
                         after |-> stepped.after, reset |-> stepped.done,
                         before |-> Before(st.episode[i]),
                         robs |-> IF stepped.done THEN again.obs ELSE <<>>,
                         init |-> IF stepped.done THEN again.init ELSE <<>>,
                         raised |-> FALSE,
                         changed |-> OthersChanged(st.envs, st.sim, es, heap, i)])]

\* one round of the loop of EnvPool.step (lines 115-121)
StepSlot(st, i, action, rp) ==
    LET stepped == FrameBuffer_step(st.envs[i], st.sim, action, rp)
        again   == FrameBuffer_reset(stepped.self, stepped.heap, rp.robs)
        es      == [st.envs EXCEPT ![i] = IF stepped.done THEN again.self
                                          ELSE stepped.self]
        heap    == IF stepped.done THEN again.heap ELSE stepped.heap
    IN  [envs    |-> es,
         sim     |-> heap,
         states  |-> [st.states EXCEPT ![i] =
                         IF ~stepped.done THEN F32Mat(stepped.obs)
                         ELSE F32Mat(again.obs)],
         rewards |-> [st.rewards EXCEPT ![i] = F32(stepped.r)],
         dones   |-> [st.dones EXCEPT ![i] = stepped.done],
         episode |-> [st.episode EXCEPT ![i] =
                         IF stepped.done THEN AfterReset(AfterStep(stepped.done))
                         ELSE AfterStep(stepped.done)],
         trace   |-> Append(st.trace,
                        [slot |-> i, action |-> action, obs |-> stepped.obs,
                         r |-> stepped.r, done |-> stepped.done,
                         after |-> stepped.after, reset |-> stepped.done,
                         before |-> Before(st.episode[i]),
                         robs |-> IF stepped.done THEN again.obs ELSE <<>>,
                         init |-> IF stepped.done THEN again.init ELSE <<>>,
                         raised |-> FALSE,
                         changed |-> OthersChanged(st.envs, st.sim, es, heap, i)])]

\* the loop of EnvPool.step taking the slots from the last to the first
RECURSIVE StepLoop_Descending(_, _, _, _)
StepLoop_Descending(st, i, actions, rps) ==
    LET last == Min(Len(actions), Len(st.envs))
    IN  IF i > last THEN st
        ELSE StepLoop_Descending(StepSlot(st, last + 1 - i, actions[last + 1 - i],
                                          rps[last + 1 - i]),
                                 i + 1, actions, rps)

\* for i, (action, env) in enumerate(zip(actions, self.envs)): the loop
\* runs over the pairs zip makes, min(len(actions), len(envs)) of them
RECURSIVE StepLoop(_, _, _, _)
StepLoop(st, i, actions, rps) ==
    IF i > Min(Len(actions), Len(st.envs)) THEN st
    ELSE StepLoop(StepSlot(st, i, actions[i], rps[i]), i + 1, actions, rps)

\* the loops up to slot `last`: the rounds before one in which an
\* environment raises
RECURSIVE ResetRounds(_, _, _, _)
ResetRounds(st, i, last, robs) ==
    IF i > last THEN st
    ELSE ResetRounds(ResetSlot(st, i, robs[i]), i + 1, last, robs)

RECURSIVE StepRounds(_, _, _, _, _)
StepRounds(st, i, last, actions, rps) ==
    IF i > last THEN st
    ELSE StepRounds(StepSlot(st, i, actions[i], rps[i]), i + 1, last, actions, rps)

\* the round of the loop of EnvPool.reset in which env.reset() raises
\* (line 109): nothing is assigned
ResetSlotRaises(st, i, robs, early) ==
    LET res == FrameBuffer_reset_raises(st.envs[i], st.sim, robs, early)
        es  == [st.envs EXCEPT ![i] = res.self]
    IN  [envs    |-> es,
         sim     |-> res.heap,
         states  |-> st.states,
         rewards |-> st.rewards,
         dones   |-> st.dones,
         episode |-> st.episode,
         trace   |-> Append(st.trace,
                        [slot |-> i, action |-> NoAct, obs |-> <<>>, r |-> 0,
                         done |-> FALSE, after |-> FALSE, reset |-> TRUE,
                         before |-> Before(st.episode[i]),
                         robs |-> <<>>, init |-> <<>>,
                         raised |-> TRUE,
                         changed |-> OthersChanged(st.envs, st.sim, es, res.heap, i)])]

\* the round of the loop of EnvPool.step in which the environment raises:
\* in env.step (line 115), nothing assigned, or in the env.reset() that
\* follows a done (line 121), the reward and the done flag assigned (lines
\* 116-117) and the observation not
StepSlotRaises(st, i, action, rp, where, early) ==
    LET failed  == FrameBuffer_step_raises(st.envs[i], st.sim, action, rp, early)
        stepped == FrameBuffer_step(st.envs[i], st.sim, action, rp)
        again   == FrameBuffer_reset_raises(stepped.self, stepped.heap, rp.robs, early)
        inStep  == where = "step"
        es      == [st.envs EXCEPT ![i] = IF inStep THEN failed.self ELSE again.self]
        heap    == IF inStep THEN failed.heap ELSE again.heap
    IN  [envs    |-> es,
         sim     |-> heap,
         states  |-> st.states,
         rewards |-> IF inStep THEN st.rewards
                     ELSE [st.rewards EXCEPT ![i] = F32(stepped.r)],
         dones   |-> IF inStep THEN st.dones
                     ELSE [st.dones EXCEPT ![i] = stepped.done],
         episode |-> IF inStep THEN st.episode
                     ELSE [st.episode EXCEPT ![i] = AfterStep(stepped.done)],
         trace   |-> Append(st.trace,
                        [slot |-> i, action |-> action,
                         obs |-> IF inStep THEN <<>> ELSE stepped.obs,
                         r |-> IF inStep THEN 0 ELSE stepped.r,
                         done |-> ~inStep,
                         after |-> st.sim[st.envs[i].env].ended,
                         reset |-> ~inStep,
                         before |-> Before(st.episode[i]),
                         robs |-> <<>>, init |-> <<>>,
                         raised |-> TRUE,
                         changed |-> OthersChanged(st.envs, st.sim, es, heap, i)])]

\* EnvPool.reset whose loop leaves out the first slot
EnvPool_reset_SkipsFirst(es, heap, m, held, eps, robs) ==
    LET n    == Len(es)
        a1   == ArrayNew(m, ZeroStates(n, n_frames, feat), held)
        a2   == ArrayNew(a1.mem, ZeroRewards(n), held \cup {a1.ref})
        a3   == ArrayNew(a2.mem, ZeroDones(n), held \cup {a1.ref, a2.ref})
        st   == ResetLoop([envs |-> es, sim |-> heap, states |-> a3.mem[a1.ref],
                           rewards |-> a3.mem[a2.ref], dones |-> a3.mem[a3.ref],
                           episode |-> eps, trace |-> <<>>], 2, robs)
        m1   == [a3.mem EXCEPT ![a1.ref] = st.states]
        out  == ArrayCopy(m1, a1.ref, held \cup {a1.ref, a2.ref, a3.ref})
    IN  [envs |-> st.envs, sim |-> st.sim, mem |-> out.mem,
         states |-> a1.ref, rewards |-> a2.ref, dones |-> a3.ref,
         ret |-> [obs |-> out.ref, rew |-> NoRef, done |-> NoRef],
         episode |-> st.episode, trace |-> st.trace]

\* EnvPool.reset (lines 104-110): new state arrays, every environment reset,
\* a copy of the observations returned
EnvPool_reset(es, heap, m, held, eps, robs) ==
    LET n    == Len(es)
        a1   == ArrayNew(m, ZeroStates(n, n_frames, feat), held)
        a2   == ArrayNew(a1.mem, ZeroRewards(n), held \cup {a1.ref})
        a3   == ArrayNew(a2.mem, ZeroDones(n), held \cup {a1.ref, a2.ref})
        st   == ResetLoop([envs |-> es, sim |-> heap, states |-> a3.mem[a1.ref],
                           rewards |-> a3.mem[a2.ref], dones |-> a3.mem[a3.ref],
                           episode |-> eps, trace |-> <<>>], 1, robs)
        m1   == [a3.mem EXCEPT ![a1.ref] = st.states]
        out  == ArrayCopy(m1, a1.ref, held \cup {a1.ref, a2.ref, a3.ref})
    IN  [envs |-> st.envs, sim |-> st.sim, mem |-> out.mem,
         states |-> a1.ref, rewards |-> a2.ref, dones |-> a3.ref,
         ret |-> [obs |-> out.ref, rew |-> NoRef, done |-> NoRef],
         episode |-> st.episode, trace |-> st.trace]

\* EnvPool.step returning arrays of the pairs zip made, not of the slots
EnvPool_step_Zipped(es, heap, m, S, R, D, held, eps, actions, rps) ==
    LET st   == StepLoop([envs |-> es, sim |-> heap, states |-> m[S],
                           rewards |-> m[R], dones |-> m[D], episode |-> eps,
                           trace |-> <<>>],
                          1, actions, rps)
        m1   == [m EXCEPT ![S] = st.states, ![R] = st.rewards, ![D] = st.dones]
        done == Min(Len(actions), Len(es))
        c1   == ArrayNew(m1, SubSeq(st.states, 1, done), held \cup {S, R, D})
        c2   == ArrayNew(c1.mem, SubSeq(st.rewards, 1, done),
                         held \cup {S, R, D, c1.ref})
        c3   == ArrayNew(c2.mem, SubSeq(st.dones, 1, done),
                         held \cup {S, R, D, c1.ref, c2.ref})
    IN  [envs |-> st.envs, sim |-> st.sim, mem |-> c3.mem,
         states |-> S, rewards |-> R, dones |-> D,
         ret |-> [obs |-> c1.ref, rew |-> c2.ref, done |-> c3.ref],
         episode |-> st.episode, trace |-> st.trace]

\* EnvPool.step (lines 112-122): the loop writes into the state arrays,
\* copies of the three are returned
EnvPool_step(es, heap, m, S, R, D, held, eps, actions, rps) ==
    LET st   == StepLoop([envs |-> es, sim |-> heap, states |-> m[S],
                           rewards |-> m[R], dones |-> m[D], episode |-> eps,
                           trace |-> <<>>],
                          1, actions, rps)
        m1   == [m EXCEPT ![S] = st.states, ![R] = st.rewards, ![D] = st.dones]
        c1   == ArrayCopy(m1, S, held \cup {S, R, D})
        c2   == ArrayCopy(c1.mem, R, held \cup {S, R, D, c1.ref})
        c3   == ArrayCopy(c2.mem, D, held \cup {S, R, D, c1.ref, c2.ref})
    IN  [envs |-> st.envs, sim |-> st.sim, mem |-> c3.mem,
         states |-> S, rewards |-> R, dones |-> D,
         ret |-> [obs |-> c1.ref, rew |-> c2.ref, done |-> c3.ref],
         episode |-> st.episode, trace |-> st.trace]

\* EnvPool.reset() in which the env.reset() of slot f raises: the new arrays
\* are the pool's (lines 105-107), the slots before f are reset, nothing is
\* returned
EnvPool_reset_raises(es, heap, m, held, eps, robs, f, early) ==
    LET n    == Len(es)
        a1   == ArrayNew(m, ZeroStates(n, n_frames, feat), held)
        a2   == ArrayNew(a1.mem, ZeroRewards(n), held \cup {a1.ref})
        a3   == ArrayNew(a2.mem, ZeroDones(n), held \cup {a1.ref, a2.ref})
        st0  == ResetRounds([envs |-> es, sim |-> heap, states |-> a3.mem[a1.ref],
                             rewards |-> a3.mem[a2.ref], dones |-> a3.mem[a3.ref],
                             episode |-> eps, trace |-> <<>>], 1, f - 1, robs)
        st   == ResetSlotRaises(st0, f, robs[f], early)
    IN  [envs |-> st.envs, sim |-> st.sim,
         mem |-> [a3.mem EXCEPT ![a1.ref] = st.states],
         states |-> a1.ref, rewards |-> a2.ref, dones |-> a3.ref,
         ret |-> [obs |-> NoRef, rew |-> NoRef, done |-> NoRef],
         episode |-> st.episode, trace |-> st.trace]

\* EnvPool.step in which the failure of slot f is caught and the loop goes
\* on with the slots after f
EnvPool_step_raises_Isolated(es, heap, m, S, R, D, held, eps, actions, rps, f, where, early) ==
    LET st0  == StepRounds([envs |-> es, sim |-> heap, states |-> m[S],
                            rewards |-> m[R], dones |-> m[D], episode |-> eps,
                            trace |-> <<>>], 1, f - 1, actions, rps)
        st1  == StepSlotRaises(st0, f, actions[f], rps[f], where, early)
        st   == StepRounds(st1, f + 1, Len(es), actions, rps)
    IN  [envs |-> st.envs, sim |-> st.sim,
         mem |-> [m EXCEPT ![S] = st.states, ![R] = st.rewards, ![D] = st.dones],
         states |-> S, rewards |-> R, dones |-> D,
         ret |-> [obs |-> NoRef, rew |-> NoRef, done |-> NoRef],
         episode |-> st.episode, trace |-> st.trace]

\* EnvPool.step in which the env.step or the env.reset() of slot f raises:
\* the slots before f are stepped, nothing is returned
EnvPool_step_raises(es, heap, m, S, R, D, held, eps, actions, rps, f, where, early) ==
    LET st0  == StepRounds([envs |-> es, sim |-> heap, states |-> m[S],
                            rewards |-> m[R], dones |-> m[D], episode |-> eps,
                            trace |-> <<>>], 1, f - 1, actions, rps)
        st   == StepSlotRaises(st0, f, actions[f], rps[f], where, early)
    IN  [envs |-> st.envs, sim |-> st.sim,
         mem |-> [m EXCEPT ![S] = st.states, ![R] = st.rewards, ![D] = st.dones],
         states |-> S, rewards |-> R, dones |-> D,
         ret |-> [obs |-> NoRef, rew |-> NoRef, done |-> NoRef],
         episode |-> st.episode, trace |-> st.trace]

\* pool_states returning the state array itself
EnvPool_pool_states_NoCopy(es, heap, m, S, R, D, held, eps) ==
    [envs |-> es, sim |-> heap, mem |-> m,
     states |-> S, rewards |-> R, dones |-> D,
     ret |-> [obs |-> S, rew |-> NoRef, done |-> NoRef],
     episode |-> eps, trace |-> <<>>]

\* pool_states clearing the rewards and done flags, as reset does
EnvPool_pool_states_Clears(es, heap, m, S, R, D, held, eps) ==
    LET m1  == [m EXCEPT ![R] = ZeroRewards(Len(es)), ![D] = ZeroDones(Len(es))]
        out == ArrayCopy(m1, S, held \cup {S, R, D})
    IN  [envs |-> es, sim |-> heap, mem |-> out.mem,
         states |-> S, rewards |-> R, dones |-> D,
         ret |-> [obs |-> out.ref, rew |-> NoRef, done |-> NoRef],
         episode |-> eps, trace |-> <<>>]

\* EnvPool.pool_states (lines 128-129)
EnvPool_pool_states(es, heap, m, S, R, D, held, eps) ==
    LET out == ArrayCopy(m, S, held \cup {S, R, D})
    IN  [envs |-> es, sim |-> heap, mem |-> out.mem,
         states |-> S, rewards |-> R, dones |-> D,
         ret |-> [obs |-> out.ref, rew |-> NoRef, done |-> NoRef],
         episode |-> eps, trace |-> <<>>]

(***************************************************************************)
(* Shapes (FrameBuffer.__init__, lines 51-67).  A shape is a sequence of   *)
(* axis lengths.                                                           *)
(***************************************************************************)
ShapeError == <<0 - 1>>

\* [n_frames, ] + list(env.observation_space.shape)
FramebufferShape(base, k) == <<k>> \o base

\* shape_dims[1:] + [shape_dims[0]]: axis numbers, from 0
ShapeDims(fbs) == [i \in 1 .. Len(fbs) |-> IF i < Len(fbs) THEN i ELSE 0]

\* result_shape with no unit axis for a flat base shape
ResultShape_NoUnitAxis(base, k) == [base EXCEPT ![Len(base)] = base[Len(base)] * k]

\* result_shape (lines 58-62)
ResultShape(base, k) ==
    LET rs == IF Len(base) = 1 THEN base \o <<1>> ELSE base
    IN  [rs EXCEPT ![Len(rs)] = rs[Len(rs)] * k]

\* the shape of np.transpose(x, dims)
TransposeShape(shape, dims) == [i \in 1 .. Len(shape) |-> shape[dims[i] + 1]]

\* the shape of x.reshape(target): the element counts must agree
ReshapeShape(shape, target) ==
    IF Prod(shape) = Prod(target) THEN target ELSE ShapeError

\* the shape of reshape_fn(x) for the default reshape_fn of line 64
ReshapeFnShape(shape, base, k) ==
    IF shape = ShapeError THEN ShapeError
    ELSE ReshapeShape(TransposeShape(shape, ShapeDims(FramebufferShape(base, k))),
                      ResultShape(base, k))

\* the shape of np.vstack([obs[None], framebuffer[:-1]])
UpdateBufferShape(fbs, obs_shape) ==
    IF fbs = ShapeError THEN ShapeError
    ELSE IF Tail(fbs) # obs_shape THEN ShapeError
    ELSE <<1 + (Head(fbs) - 1)>> \o obs_shape

(***************************************************************************)
(* PreprocessImage (lines 22-43).  An image is its shape and, for its      *)
(* values, one vector along its last axis: every step of _observation      *)
(* treats all such vectors alike.  A value of the output is a fraction     *)
(* [num, den].                                                             *)
(***************************************************************************)
\* no PreprocessImage in the wrapper chain
NoImage == [img_size |-> <<>>, grayscale |-> FALSE, resized |-> <<>>, out |-> <<>>]

\* values of a uint8 pixel: the ends of the range and one between
Pixels == {0, 128, 255}

\* the shapes scipy.misc.imresize takes: (H, W), (H, W, 3) and (H, W, 4)
RawShapes ==
    {<<h, w>> : h \in 1 .. MaxSide, w \in 1 .. MaxSide}
        \cup {<<h, w, c>> : h \in 1 .. MaxSide, w \in 1 .. MaxSide, c \in {3, 4}}

\* Box(0.0, 1.0, [height, width, n_colors]) of __init__ (lines 33-34)
PreprocessImage_init(height, width, grayscale) ==
    <<height, width, IF grayscale THEN 1 ELSE 3>>

\* self.crop(img) with the default crop, no_crop (lines 30-31)
CropShape(shape) == shape

\* imresize(img, self.img_size): height and width become img_size, the
\* channel axis, where there is one, is kept
ImresizeShape(shape, size) == size \o SubSeq(shape, 3, Len(shape))

\* img.mean(-1) without keepdims: the last axis is dropped
MeanShape_NoKeepdims(shape) == SubSeq(shape, 1, Len(shape) - 1)

\* img.mean(-1, keepdims=True): the last axis becomes 1
MeanShape(shape) == [shape EXCEPT ![Len(shape)] = 1]

\* shape of what _observation returns (lines 36-43)
ObservationShape(shape, size, grayscale) ==
    LET resized == ImresizeShape(CropShape(shape), size)
    IN  IF grayscale THEN MeanShape(resized) ELSE resized

RECURSIVE Sum(_)
Sum(v) == IF v = <<>> THEN 0 ELSE Head(v) + Sum(Tail(v))

\* img.astype('float32') / 255. of the vector v, averaged along the last
\* axis when grayscale is asked for
ObservationValues(v, grayscale) ==
    IF grayscale THEN <<[num |-> Sum(v), den |-> 255 * Len(v)]>>
    ELSE [x \in 1 .. Len(v) |-> [num |-> v[x], den |-> 255]]

(***************************************************************************)
(* The pool and its caller.                                                *)
(***************************************************************************)
Held    == ({ret.obs, ret.rew, ret.done} \cup kept) \ {NoRef}
Pool    == {_states, _rewards, _dones}

\* the caller goes on holding the observations of its last call, or nothing
Keep(keep) == IF keep THEN {ret.obs} \ {NoRef} ELSE {}

Install(res, op, actions, keeping) ==
    /\ envs' = res.envs
    /\ sim' = res.sim
    /\ _states' = res.states
    /\ _rewards' = res.rewards
    /\ _dones' = res.dones
    /\ ret' = res.ret
    /\ kept' = keeping
    /\ mem' = Collect(res.mem, {res.states, res.rewards, res.dones, res.ret.obs,
                                res.ret.rew, res.ret.done} \cup keeping)
    /\ episode' = res.episode
    /\ call' = [op |-> op, nactions |-> Len(actions), actions |-> actions,
                raised |-> FALSE, trace |-> res.trace]
    /\ UNCHANGED <<n_envs, n_frames, feat, initial_env, shapeVars, auxVars>>

Configs == {c \in [n : 1 .. MaxEnvs, k : 1 .. MaxFrames, f : 1 .. MaxFeat] :
                c.n * c.k * c.f <= MaxCells}

\* EnvPool(FrameBuffer(env, n_frames), n_envs): lines 91-98
Construct(configs) ==
    \E c \in configs : \E robs \in [1 .. c.n -> Frames(c.f)] :
        LET template == FrameBuffer_init(0, c.k, c.f)
            heap0    == [e \in {0} |-> [cur |-> ZeroFrame(c.f), ended |-> FALSE]]
            es       == recreate_envs(template, c.n)
        IN  /\ n_envs = c.n
            /\ n_frames = c.k
            /\ feat = c.f
            /\ initial_env = template
            /\ base_shape = <<c.f>>
            /\ fb_shape = FramebufferShape(<<c.f>>, c.k)
            /\ space_shape = ReshapeFnShape(FramebufferShape(<<c.f>>, c.k), <<c.f>>, c.k)
            /\ out_shape = ReshapeFnShape(FramebufferShape(<<c.f>>, c.k), <<c.f>>, c.k)
            /\ LET st == ResetLoop([envs |-> es, sim |-> heap0,
                                    states |-> ZeroStates(c.n, c.k, c.f),
                                    rewards |-> ZeroRewards(c.n),
                                    dones |-> ZeroDones(c.n),
                                    episode |-> [i \in 1 .. c.n |-> "active"],
                                    trace |-> <<>>], 1, robs)
               IN  /\ envs = st.envs
                   /\ sim = st.sim
                   /\ _states = 0
                   /\ _rewards = 1
                   /\ _dones = 2
                   /\ mem = (0 :> st.states) @@ (1 :> st.rewards) @@ (2 :> st.dones)
                   /\ ret = [obs |-> NoRef, rew |-> NoRef, done |-> NoRef]
                   /\ kept = {}
                   /\ episode = st.episode
                   /\ call = [op |-> "init", nactions |-> 0, actions |-> <<>>,
                              raised |-> FALSE, trace |-> st.trace]
                   /\ image = NoImage
                   /\ history = <<>>
                   /\ instances = EnvPool_recreate_envs(NoInstances, c.n)

Init == Construct(Configs)

Reset(keep) ==
    \E robs \in [1 .. n_envs -> Frames(feat)] :
        Install(EnvPool_reset(envs, sim, mem, Keep(keep), episode, robs), "reset", <<>>, Keep(keep))

\* step(actions) with a batch of any length in lens; the actions and the
\* simulator's answers repeat after two slots
Step(keep, lens, uniform) ==
    \E len \in lens :
    \E actions \in {a \in [1 .. len -> Actions] :
                        \A i \in 1 .. len : i > 2 => a[i] = a[i - 2]} :
    \E rps \in {r \in [1 .. Min(len, n_envs) -> Resp(feat)] :
                    /\ (uniform \/ len > n_envs) => \A i \in DOMAIN r : r[i] = r[1]
                    /\ \A i \in DOMAIN r : i > 2 => r[i] = r[i - 2]} :
        Install(EnvPool_step(envs, sim, mem, _states, _rewards, _dones,
                             Keep(keep), episode, actions, rps), "step", actions, Keep(keep))

PoolStates(keep) ==
    Install(EnvPool_pool_states(envs, sim, mem, _states, _rewards, _dones, Keep(keep),
                                episode),
            "pool_states", <<>>, Keep(keep))

Next ==
    \/ Reset(FALSE)
    \/ Step(FALSE, 0 .. n_envs + 1, FALSE)
    \/ PoolStates(FALSE)

Spec == Init /\ [][Next]_vars

(***************************************************************************)
(* The caller writes into arrays it was handed.  At most one written cell  *)
(* is alive at a time.                                                     *)
(***************************************************************************)
ObsRefs == ({_states, ret.obs} \cup kept) \ {NoRef}
RewRefs == {_rewards, ret.rew} \ {NoRef}

PoisonedObs(r) ==
    \E i \in 1 .. Len(mem[r]) : \E x \in 1 .. Len(mem[r][i]) :
        \E k \in 1 .. Len(mem[r][i][x]) : mem[r][i][x][k] = Poison
PoisonedRew(r) == \E i \in 1 .. Len(mem[r]) : mem[r][i] = Poison
NoPoison ==
    /\ \A r \in ObsRefs : ~PoisonedObs(r)
    /\ \A r \in RewRefs : ~PoisonedRew(r)

CallerWrites ==
    /\ NoPoison
    /\ \/ \E r \in ({ret.obs} \cup kept) \ {NoRef} :
          \E i \in 1 .. n_envs : \E x \in 1 .. feat : \E k \in 1 .. n_frames :
              mem' = [mem EXCEPT ![r][i][x][k] = Poison]
       \/ \E r \in {ret.rew} \ {NoRef} : \E i \in 1 .. n_envs :
              mem' = [mem EXCEPT ![r][i] = Poison]
    /\ UNCHANGED <<n_envs, n_frames, feat, sim, initial_env, envs,
                   _states, _rewards, _dones, ret, kept, call, episode, shapeVars,
                   auxVars>>

NextCopy ==
    \/ \E keep \in BOOLEAN : Reset(keep)
    \/ \E keep \in BOOLEAN : Step(keep, {n_envs}, TRUE)
    \/ \E keep \in BOOLEAN : PoolStates(keep)
    \/ CallerWrites

InitCopy == Construct({c \in Configs : c.n * c.k * c.f <= MaxCopyCells})

SpecCopy == InitCopy /\ [][NextCopy]_vars

(***************************************************************************)
(* FrameBuffer alone, over base observation shapes of any rank: what       *)
(* shape it declares and what shapes it returns.                           *)
(***************************************************************************)
RECURSIVE Shapes(_)
Shapes(rank) ==
    IF rank = 0 THEN {<<>>}
    ELSE {<<d>> \o s : d \in 1 .. MaxDim, s \in Shapes(rank - 1)}

BaseShapes == UNION {Shapes(rank) : rank \in 1 .. MaxRank}

\* FrameBuffer(env, n_frames) with the default reshape_fn
InitShape ==
    \E base \in BaseShapes : \E k \in 1 .. MaxFrames :
        /\ base_shape = base
        /\ n_frames = k
        /\ fb_shape = FramebufferShape(base, k)
        /\ space_shape = ReshapeFnShape(FramebufferShape(base, k), base, k)
        /\ out_shape = <<>>
        /\ n_envs = 0
        /\ feat = 0
        /\ sim = <<>>
        /\ initial_env = <<>>
        /\ envs = <<>>
        /\ mem = <<>>
        /\ _states = NoRef
        /\ _rewards = NoRef
        /\ _dones = NoRef
        /\ ret = [obs |-> NoRef, rew |-> NoRef, done |-> NoRef]
        /\ kept = {}
        /\ episode = <<>>
        /\ call = [op |-> "FrameBuffer", nactions |-> 0, actions |-> <<>>,
                   raised |-> FALSE, trace |-> <<>>]
        /\ image = NoImage
        /\ history = <<>>
        /\ instances = NoInstances

\* FrameBuffer.reset: zeros_like keeps the shape, update_buffer stacks the
\* observation of the wrapped env, reshape_fn shapes what is returned
ShapeReset ==
    /\ fb_shape' = UpdateBufferShape(fb_shape, base_shape)
    /\ out_shape' = ReshapeFnShape(fb_shape', base_shape, n_frames)
    /\ call' = [call EXCEPT !.op = "FrameBuffer.reset"]
    /\ UNCHANGED <<n_envs, n_frames, feat, sim, initial_env, envs, mem,
                   _states, _rewards, _dones, ret, kept, episode, base_shape,
                   space_shape, auxVars>>

\* FrameBuffer.step
ShapeStep ==
    /\ fb_shape' = UpdateBufferShape(fb_shape, base_shape)
    /\ out_shape' = ReshapeFnShape(fb_shape', base_shape, n_frames)
    /\ call' = [call EXCEPT !.op = "FrameBuffer.step"]
    /\ UNCHANGED <<n_envs, n_frames, feat, sim, initial_env, envs, mem,
                   _states, _rewards, _dones, ret, kept, episode, base_shape,
                   space_shape, auxVars>>

NextShape == ShapeReset \/ ShapeStep

SpecShape == InitShape /\ [][NextShape]_vars

(***************************************************************************)
(* The pool over an environment whose step and reset may raise.  Nothing   *)
(* in EnvPool or FrameBuffer catches an exception: the call ends where the *)
(* environment raised and the caller is handed nothing.                    *)
(***************************************************************************)
InstallRaised(res, op, actions) ==
    /\ envs' = res.envs
    /\ sim' = res.sim
    /\ _states' = res.states
    /\ _rewards' = res.rewards
    /\ _dones' = res.dones
    /\ ret' = res.ret
    /\ kept' = {}
    /\ mem' = Collect(res.mem, {res.states, res.rewards, res.dones})
    /\ episode' = res.episode
    /\ call' = [op |-> op, nactions |-> Len(actions), actions |-> actions,
                raised |-> TRUE, trace |-> res.trace]
    /\ UNCHANGED <<n_envs, n_frames, feat, initial_env, shapeVars, auxVars>>

\* reset() in which the environment of slot f raises
ResetRaises ==
    \E robs \in [1 .. n_envs -> Frames(feat)] :
    \E f \in 1 .. n_envs : \E early \in BOOLEAN :
        InstallRaised(EnvPool_reset_raises(envs, sim, mem, {}, episode, robs, f, early),
                      "reset", <<>>)

\* step(actions) in which the environment of slot f raises, in its step or
\* in the reset after its step returned done; the environments answer alike
StepRaises ==
    \E actions \in {a \in [1 .. n_envs -> Actions] :
                        \A i \in 1 .. n_envs : i > 2 => a[i] = a[i - 2]} :
    \E rps \in {r \in [1 .. n_envs -> Resp(feat)] : \A i \in DOMAIN r : r[i] = r[1]} :
    \E f \in 1 .. n_envs : \E where \in {"step", "reset"} : \E early \in BOOLEAN :
        /\ where = "reset" => rps[f].done
        /\ InstallRaised(EnvPool_step_raises(envs, sim, mem, _states, _rewards, _dones,
                                             {}, episode, actions, rps, f, where, early),
                         "step", actions)

\* the caller gives the pool up at the first call that raises
NextFail ==
    \/ ~call.raised /\ Reset(FALSE)
    \/ ~call.raised /\ Step(FALSE, {n_envs}, TRUE)
    \/ ~call.raised /\ ResetRaises
    \/ ~call.raised /\ StepRaises

InitFail == Construct({c \in Configs : c.k = 1 /\ c.f = 1})

SpecFail == InitFail /\ [][NextFail]_vars

(***************************************************************************)
(* PreprocessImage alone, over raw images of the shapes the resize takes.  *)
(***************************************************************************)
\* PreprocessImage(env, height, width, grayscale) over an environment whose
\* raw images have shape base_shape
InitImage ==
    \E shape \in RawShapes : \E h \in 1 .. MaxSide : \E w \in 1 .. MaxSide :
    \E g \in BOOLEAN :
        /\ base_shape = shape
        /\ space_shape = PreprocessImage_init(h, w, g)
        /\ image = [img_size |-> <<h, w>>, grayscale |-> g, resized |-> <<>>,
                    out |-> <<>>]
        /\ out_shape = <<>>
        /\ fb_shape = <<>>
        /\ n_envs = 0
        /\ n_frames = 0
        /\ feat = 0
        /\ sim = <<>>
        /\ initial_env = <<>>
        /\ envs = <<>>
        /\ mem = <<>>
        /\ _states = NoRef
        /\ _rewards = NoRef
        /\ _dones = NoRef
        /\ ret = [obs |-> NoRef, rew |-> NoRef, done |-> NoRef]
        /\ kept = {}
        /\ episode = <<>>
        /\ call = [op |-> "PreprocessImage", nactions |-> 0, actions |-> <<>>, raised |-> FALSE,
                   trace |-> <<>>]
        /\ history = <<>>
        /\ instances = NoInstances

\* _observation(img) for a raw image of shape base_shape: the resize yields
\* some uint8 image of the resized shape
Observation ==
    LET resized == ImresizeShape(CropShape(base_shape), image.img_size)
    IN  \E v \in [1 .. resized[Len(resized)] -> Pixels] :
            /\ image' = [image EXCEPT !.resized = v,
                                      !.out = ObservationValues(v, image.grayscale)]
            /\ out_shape' = ObservationShape(base_shape, image.img_size, image.grayscale)
            /\ call' = [call EXCEPT !.op = "_observation"]
            /\ UNCHANGED <<n_envs, n_frames, feat, sim, initial_env, envs, mem,
                           _states, _rewards, _dones, ret, kept, episode, base_shape,
                           fb_shape, space_shape, history, instances>>

NextImage == Observation

SpecImage == InitImage /\ [][NextImage]_vars

(***************************************************************************)
(* One FrameBuffer over its environment, driven as gym asks: reset first,  *)
(* and reset again after a done.                                           *)
(***************************************************************************)
\* FrameBuffer(env, n_frames)
InitBuffer ==
    \E k \in 1 .. MaxFrames : \E f \in 1 .. MaxFeat :
        /\ n_frames = k
        /\ feat = f
        /\ initial_env = FrameBuffer_init(0, k, f)
        /\ sim = [e \in {0} |-> [cur |-> ZeroFrame(f), ended |-> FALSE]]
        /\ history = <<>>
        /\ instances = NoInstances
        /\ call = [op |-> "FrameBuffer", nactions |-> 0, actions |-> <<>>,
                   raised |-> FALSE, trace |-> <<>>]
        /\ n_envs = 0
        /\ envs = <<>>
        /\ mem = <<>>
        /\ _states = NoRef
        /\ _rewards = NoRef
        /\ _dones = NoRef
        /\ ret = [obs |-> NoRef, rew |-> NoRef, done |-> NoRef]
        /\ kept = {}
        /\ episode = <<>>
        /\ base_shape = <<f>>
        /\ fb_shape = FramebufferShape(<<f>>, k)
        /\ space_shape = ReshapeFnShape(FramebufferShape(<<f>>, k), <<f>>, k)
        /\ out_shape = <<>>
        /\ image = NoImage

\* FrameBuffer.reset()
BufferReset ==
    \E robs \in Frames(feat) :
        LET res == FrameBuffer_reset(initial_env, sim, robs)
        IN  /\ initial_env' = res.self
            /\ sim' = res.heap
            /\ history' = <<res.init>>
            /\ call' = [op |-> "FrameBuffer.reset", nactions |-> 0,
                        actions |-> <<>>, raised |-> FALSE,
                        trace |-> <<[obs |-> res.obs]>>]
            /\ UNCHANGED <<n_envs, n_frames, feat, envs, mem, _states, _rewards,
                           _dones, ret, kept, episode, shapeVars, image, instances>>

\* FrameBuffer.step(action)
BufferStep ==
    /\ history # <<>>
    /\ Len(history) <= MaxSteps
    /\ ~sim[initial_env.env].ended
    /\ \E action \in Actions : \E rp \in Resp(feat) :
        LET res == FrameBuffer_step(initial_env, sim, action, rp)
        IN  /\ initial_env' = res.self
            /\ sim' = res.heap
            /\ history' = <<rp.obs>> \o history
            /\ call' = [op |-> "FrameBuffer.step", nactions |-> 1,
                        actions |-> <<action>>, raised |-> FALSE,
                        trace |-> <<[action |-> action, rp |-> rp, obs |-> res.obs,
                                     r |-> res.r, done |-> res.done,
                                     info |-> res.info, calls |-> res.calls,
                                     inner |-> SimStep(sim, initial_env.env,
                                                       action, rp)]>>]
            /\ UNCHANGED <<n_envs, n_frames, feat, envs, mem, _states, _rewards,
                           _dones, ret, kept, episode, shapeVars, image, instances>>

NextBuffer == BufferReset \/ BufferStep

SpecBuffer == InitBuffer /\ [][NextBuffer]_vars

(***************************************************************************)
(* The life of the pool's environment objects: construction, reset, step,  *)
(* recreate_envs, and close, after which the pool is used no more.         *)
(***************************************************************************)
\* recreate_envs(): the slots hold new copies of the template; the state
\* arrays are left as they are
RecreateEnvs ==
    /\ Cardinality(instances.created) < (MaxRecreate + 1) * n_envs
    /\ envs' = recreate_envs(initial_env, n_envs)
    /\ instances' = EnvPool_recreate_envs(instances, n_envs)
    /\ episode' = [i \in 1 .. n_envs |-> "active"]
    /\ ret' = [obs |-> NoRef, rew |-> NoRef, done |-> NoRef]
    /\ kept' = {}
    /\ mem' = Collect(mem, Pool)
    /\ call' = [op |-> "recreate_envs", nactions |-> 0, actions |-> <<>>,
                raised |-> FALSE, trace |-> <<>>]
    /\ UNCHANGED <<n_envs, n_frames, feat, sim, initial_env, _states, _rewards,
                   _dones, shapeVars, image, history>>

\* close()
Close ==
    /\ instances' = EnvPool_close(instances)
    /\ ret' = [obs |-> NoRef, rew |-> NoRef, done |-> NoRef]
    /\ kept' = {}
    /\ mem' = Collect(mem, Pool)
    /\ call' = [op |-> "close", nactions |-> 0, actions |-> <<>>,
                raised |-> FALSE, trace |-> <<>>]
    /\ UNCHANGED <<n_envs, n_frames, feat, sim, initial_env, envs, _states,
                   _rewards, _dones, episode, shapeVars, image, history>>

NextLife ==
    \/ call.op # "close" /\ Reset(FALSE)
    \/ call.op # "close" /\ Step(FALSE, {n_envs}, TRUE)
    \/ call.op # "close" /\ RecreateEnvs
    \/ call.op # "close" /\ Close

InitLife == Construct({c \in Configs : c.k = 1 /\ c.f = 1})

SpecLife == InitLife /\ [][NextLife]_vars

(***************************************************************************)
(* Properties.                                                             *)
(***************************************************************************)
Entries == {call.trace[j] : j \in DOMAIN call.trace}
Terminal == {e \in Entries : call.op = "step" /\ e.done}

\* C1 as stated: when slot i's step returns done, the observation stored
\* for slot i, and returned by this step call, equals the value the slot's
\* reset() returned in this call, and is not the terminal observation
C1_StoredEqualsReset ==
    \A e \in Terminal :
        /\ mem[_states][e.slot] = e.robs
        /\ mem[ret.obs][e.slot] = e.robs
        /\ e.obs # e.robs => mem[_states][e.slot] # e.obs

C1_Stored ==
    \A e \in Terminal :
        /\ mem[_states][e.slot] = F32Mat(e.robs)
        /\ mem[ret.obs][e.slot] = F32Mat(e.robs)
        /\ F32Mat(e.obs) # F32Mat(e.robs) => mem[_states][e.slot] # F32Mat(e.obs)

C1_NextPoolStates ==
    (call.op = "step" /\ call'.op = "pool_states") =>
        \A e \in Terminal : mem'[ret'.obs][e.slot] = F32Mat(e.robs)

\* C1 amended: when slot i's step returns done, the observation stored for
\* slot i, returned by this step call and by a pool_states() that follows
\* it, is the value the slot's reset() returned in this call rounded to
\* float32 (the dtype of EnvPool._states), and not the terminal observation
C1_AutoReset == [] C1_Stored /\ [][C1_NextPoolStates]_vars

\* a slot ended and restarted in a step call, with a terminal observation
\* and a reset observation that differ after rounding, in a history of two
C1_Witness ==
    \E e \in Terminal :
        /\ n_frames > 1
        /\ F32Mat(e.obs) # F32Mat(e.robs)
        /\ e.robs # F32Mat(e.robs)
        /\ mem[ret.obs][e.slot] = F32Mat(e.robs)

StepEntries == {e \in Entries : call.op = "step"}

\* C2 as stated: after a step call, rewards[i] and dones[i], stored and
\* returned, are exactly the reward and the done slot i's step returned in
\* this call, also when the slot ended and was reset
C2_RewardExact ==
    \A e \in StepEntries :
        /\ mem[_rewards][e.slot] = e.r
        /\ mem[ret.rew][e.slot] = e.r
        /\ mem[_dones][e.slot] = e.done
        /\ mem[ret.done][e.slot] = e.done

\* C2 amended: after a step call, dones[i] is exactly the done and
\* rewards[i] is the reward rounded to float32 (the dtype of
\* EnvPool._rewards) that slot i's step returned in this call, also when
\* the slot ended and was reset; a done of an earlier call does not persist
C2_RewardDone ==
    \A e \in StepEntries :
        /\ mem[_rewards][e.slot] = F32(e.r)
        /\ mem[ret.rew][e.slot] = F32(e.r)
        /\ mem[_dones][e.slot] = e.done
        /\ mem[ret.done][e.slot] = e.done

\* a slot that ended and was reset in this call keeps the reward of its
\* terminal step, next to a slot that did not end
C2_Witness ==
    /\ \E e \in Terminal : F32(e.r) # 0 /\ mem[ret.rew][e.slot] = F32(e.r)
    /\ \E e \in StepEntries : ~e.done /\ ~mem[ret.done][e.slot] /\ e.r # F32(e.r)

\* C3: the observation, reward and done arrays, stored and returned, have
\* exactly n_envs entries, and entry i of the observations is the
\* observation of slot i's environment
C3_Batch ==
    /\ n_envs >= 1
    /\ Len(envs) = n_envs
    /\ DOMAIN mem[_states] = 1 .. n_envs
    /\ DOMAIN mem[_rewards] = 1 .. n_envs
    /\ DOMAIN mem[_dones] = 1 .. n_envs
    /\ \A r \in {ret.obs, ret.rew, ret.done} \ {NoRef} : DOMAIN mem[r] = 1 .. n_envs
    /\ \A i \in 1 .. n_envs :
           mem[_states][i] = F32Mat(reshape_fn(envs[i].framebuffer))
    /\ call.op = "step" => ret.obs # NoRef /\ ret.rew # NoRef /\ ret.done # NoRef
    /\ call.op \in {"reset", "pool_states"} => ret.obs # NoRef

\* a step call with fewer actions than slots has returned arrays of n_envs
\* entries
C3_Witness ==
    /\ call.op = "step"
    /\ n_envs > 1
    /\ call.nactions < n_envs
    /\ Len(mem[ret.obs]) = n_envs
    /\ Len(mem[ret.rew]) = n_envs
    /\ Len(mem[ret.done]) = n_envs

\* C4 as stated: stepping or resetting slot i's environment changes the
\* environment (history and simulator state) of no other slot
C4_SlotsIndependent == \A e \in Entries : e.changed = {}

\* C5 as stated: a step call whose number of actions differs from n_envs
\* fails, and steps no slot
C5_MismatchFails ==
    (call.op = "step" /\ call.nactions # n_envs) =>
        (call.raised /\ call.trace = <<>>)

CallerStep ==
    /\ UNCHANGED <<envs, sim, _states, _rewards, _dones, ret, kept, call>>
    /\ mem' # mem

C7_NoSharing ==
    /\ Held \cap Pool = {}
    /\ ret.obs \notin kept
    /\ ret.rew # NoRef => ret.rew \notin {ret.obs, ret.done}
    /\ ret.done # NoRef => ret.done # ret.obs
    /\ ~PoisonedObs(_states)
    /\ ~PoisonedRew(_rewards)

C7_Frame ==
    /\ CallerStep => \A r \in Pool : mem'[r] = mem[r]
    /\ ~CallerStep => \A r \in kept' : mem'[r] = mem[r]
    /\ (~CallerStep /\ call'.op \in {"reset", "step", "pool_states"}) =>
           mem'[ret'.obs] = mem'[_states']
    /\ (~CallerStep /\ call.op = "pool_states" /\ call'.op = "pool_states"
           /\ ~PoisonedObs(ret.obs)) =>
           mem'[ret'.obs] = mem[ret.obs]

\* C7: an array returned by reset(), step() or pool_states() shares storage
\* with no array of the pool and with no array returned earlier; a write of
\* the caller into an array it holds changes no array of the pool, a call
\* of the pool changes no array the caller holds, and two pool_states()
\* calls in a row return equal values
C7_CopyOnReturn == [] C7_NoSharing /\ [][C7_Frame]_vars

\* the caller has written into the observations of an earlier call, and a
\* pool_states() after that returned the pool's observations, without the
\* written value
C7_Witness ==
    /\ call.op = "pool_states"
    /\ \E r \in kept : PoisonedObs(r)
    /\ ~PoisonedObs(ret.obs)
    /\ mem[ret.obs] = mem[_states]

C8_Frame ==
    call'.op = "pool_states" =>
        /\ UNCHANGED <<envs, sim, _states, _rewards, _dones, episode>>
        /\ mem'[_states] = mem[_states]
        /\ mem'[_rewards] = mem[_rewards]
        /\ mem'[_dones] = mem[_dones]
        /\ call'.trace = <<>>

\* C8: pool_states() steps and resets no environment and leaves the stored
\* observations, rewards and done flags and every environment as they were
C8_PoolStatesFrame == [][C8_Frame]_vars

\* pool_states() was called on a pool with a done flag and a reward of a
\* step call still stored
C8_Witness ==
    /\ call.op = "pool_states"
    /\ \E i \in 1 .. n_envs : mem[_dones][i] /\ mem[_rewards][i] # 0
    /\ mem[ret.obs] = mem[_states]

\* C9: after FrameBuffer.reset() the buffer has n_frames entries, the first
\* is the observation the wrapped environment's reset() returned and every
\* other one is zero, whatever the buffer held before
C9_ResetBuffer ==
    \A e \in Entries : e.reset =>
        LET fb == envs[e.slot].framebuffer
        IN  /\ Len(fb) = n_frames
            /\ fb[1] = e.init
            /\ \A k \in 2 .. n_frames : fb[k] = ZeroFrame(feat)

\* a FrameBuffer of two frames was reset after a step had pushed a second
\* observation into it
C9_Witness ==
    \E e \in Terminal :
        /\ n_frames > 1
        /\ e.obs # reshape_fn(ZerosLike(envs[e.slot].framebuffer))
        /\ envs[e.slot].framebuffer[1] = e.init
        /\ envs[e.slot].framebuffer[2] = ZeroFrame(feat)

\* the shape the claim states: the last axis times n_frames
ClaimedShape(base, k) == [base EXCEPT ![Len(base)] = base[Len(base)] * k]

\* the shape FrameBuffer has: a flat base shape gets a unit axis first
StackedShape(base, k) ==
    IF Len(base) = 1 THEN <<base[1], k>>
    ELSE [base EXCEPT ![Len(base)] = base[Len(base)] * k]

\* C10 as stated: the declared shape and the shape of every observation
\* returned are (*base_shape[:-1], base_shape[-1] * n_frames), which is
\* (features * n_frames,) for a flat base shape (features,)
C10_ShapeAsClaimed ==
    /\ space_shape = ClaimedShape(base_shape, n_frames)
    /\ out_shape \in {<<>>, ClaimedShape(base_shape, n_frames)}

\* C10 amended: the declared shape and the shape of every observation
\* returned are (*base_shape[:-1], base_shape[-1] * n_frames) for a base
\* shape of two or more axes, and (features, n_frames) for a flat base
\* shape (features,)
C10_Shape ==
    /\ space_shape = StackedShape(base_shape, n_frames)
    /\ out_shape \in {<<>>, StackedShape(base_shape, n_frames)}
    /\ fb_shape = <<n_frames>> \o base_shape

\* a FrameBuffer of more than one frame over a flat base shape of more than
\* one feature has returned an observation from step
C10_Witness ==
    /\ call.op = "FrameBuffer.step"
    /\ Len(base_shape) = 1
    /\ base_shape[1] > 1
    /\ n_frames > 1
    /\ out_shape = <<base_shape[1], n_frames>>

\* C11: EnvPool.reset() resets every slot once, in index order; slot i's
\* initial observation (as the float32 state array holds it) is stored at
\* index i and returned, every reward is 0 and every done flag is false
C11_Reset ==
    call.op = "reset" =>
        /\ Len(call.trace) = n_envs
        /\ ret.obs # NoRef
        /\ DOMAIN mem[ret.obs] = 1 .. n_envs
        /\ \A i \in 1 .. n_envs :
               /\ call.trace[i].slot = i
               /\ call.trace[i].reset
               /\ call.trace[i].action = NoAct
               /\ mem[_states][i] = F32Mat(call.trace[i].robs)
               /\ mem[ret.obs][i] = F32Mat(call.trace[i].robs)
               /\ mem[_rewards][i] = 0
               /\ mem[_dones][i] = FALSE

\* a reset of a pool of several slots, whose environments started at
\* different observations
C11_Witness ==
    /\ call.op = "reset"
    /\ n_envs > 1
    /\ mem[ret.obs][1] # mem[ret.obs][2]
    /\ call.trace[1].robs # call.trace[2].robs

\* C12: when the step or the reset of slot i's environment raises during
\* EnvPool.step or EnvPool.reset, the pool call fails (it raises and hands
\* nothing back), the round of slot i is the last of the call (the failing
\* operation is made once, every slot before i had its one round), and no
\* slot after i is stepped or reset: its wrapper is left as it was
C12_Failed ==
    \A j \in DOMAIN call.trace :
        /\ call.trace[j].slot = j
        /\ call.trace[j].raised =>
               /\ call.raised
               /\ j = Len(call.trace)
               /\ ret = [obs |-> NoRef, rew |-> NoRef, done |-> NoRef]

C12_Frame ==
    \A j \in DOMAIN call'.trace :
        call'.trace[j].raised =>
            \A l \in j + 1 .. n_envs : envs'[l] = envs[l]

C12_Propagates == [] C12_Failed /\ [][C12_Frame]_vars

\* a step that failed in a slot that is not the last one, after a done
C12_Witness ==
    /\ call.op = "step"
    /\ call.raised
    /\ Len(call.trace) < n_envs
    /\ call.trace[Len(call.trace)].raised
    /\ call.trace[Len(call.trace)].done

\* every value _observation returns lies in [0.0, 1.0]
InUnitRange ==
    \A x \in DOMAIN image.out :
        0 <= image.out[x].num /\ image.out[x].num <= image.out[x].den

C14_Buffer ==
    history # <<>> =>
        /\ Len(initial_env.framebuffer) = n_frames
        /\ \A j \in 1 .. n_frames :
               initial_env.framebuffer[j] =
                   IF j <= Len(history) THEN history[j] ELSE ZeroFrame(feat)

C14_Shift ==
    call'.op = "FrameBuffer.step" =>
        /\ initial_env'.framebuffer[1] = call'.trace[1].rp.obs
        /\ \A j \in 2 .. n_frames :
               initial_env'.framebuffer[j] = initial_env.framebuffer[j - 1]

C14_Ordering == [] C14_Buffer /\ [][C14_Shift]_vars

\* more steps than the buffer has entries: the reset observation is gone,
\* the two newest observations differ
C14_Witness ==
    /\ call.op = "FrameBuffer.step"
    /\ n_frames > 1
    /\ Len(history) > n_frames
    /\ initial_env.framebuffer[1] # initial_env.framebuffer[2]

\* C15: EnvPool.step takes the slots one after the other in increasing
\* index order, slot i with actions[i]; the step of a slot finds the
\* simulator as the round before left it, after the reset that followed a
\* done; with n_envs actions every slot is stepped once
C15_Sequential ==
    call.op = "step" =>
        /\ Len(call.trace) = Min(call.nactions, n_envs)
        /\ \A j \in DOMAIN call.trace :
               /\ call.trace[j].slot = j
               /\ call.trace[j].action = call.actions[j]
               /\ ~call.trace[j].after
               /\ call.trace[j].reset = call.trace[j].done
        /\ call.nactions = n_envs =>
               \A i \in 1 .. n_envs :
                   Cardinality({j \in DOMAIN call.trace : call.trace[j].slot = i}) = 1

\* a step of several slots with different actions, the first of which
\* ended its episode
C15_Witness ==
    /\ call.op = "step"
    /\ n_envs > 1
    /\ call.nactions = n_envs
    /\ call.trace[1].done
    /\ call.trace[1].action # call.trace[2].action

\* C16 as stated: EnvPool.reset() puts new copies of the template into all
\* slots, so no object that was a slot before the reset is one after it
C16_ResetReplaces ==
    [][call'.op = "reset" =>
          Range(instances'.ids) \cap Range(instances.ids) = {}]_vars

\* C17: FrameBuffer.step(action) calls the step of the wrapped environment
\* once, with that action, and returns the reward, done and info of that
\* step as they are; the observation it returns is the reshaped buffer
C17_StepContract ==
    call.op = "FrameBuffer.step" =>
        LET e == call.trace[1]
        IN  /\ e.calls = <<[op |-> "step", action |-> call.actions[1]]>>
            /\ e.r = e.inner.r
            /\ e.done = e.inner.done
            /\ e.info = e.inner.info
            /\ e.obs = reshape_fn(initial_env.framebuffer)
            /\ initial_env.framebuffer[1] = e.inner.obs

\* a step of a FrameBuffer with history that ended the episode with a
\* reward
C17_Witness ==
    /\ call.op = "FrameBuffer.step"
    /\ n_frames > 1
    /\ call.trace[1].done
    /\ call.trace[1].r = SimReward(1, call.trace[1].rp.obs)
    /\ call.actions = <<1>>

\* C18: close() calls close on the environment of every slot, and after
\* it no environment object the pool ever made is left unclosed; the
\* objects recreate_envs replaced were closed when it replaced them
C18_AllClosed ==
    /\ instances.created \ Range(instances.ids) \subseteq instances.closed
    /\ call.op = "close" =>
           /\ Range(instances.ids) \subseteq instances.closed
           /\ instances.created \subseteq instances.closed

\* a pool of several slots closed after recreate_envs had replaced them
C18_Witness ==
    /\ call.op = "close"
    /\ n_envs > 1
    /\ Cardinality(instances.created) > n_envs
    /\ Cardinality(instances.closed) > n_envs

\* the history a FrameBuffer holds after reset(): the initial observation,
\* then zeros
FreshBuffer(init) == <<init>> \o [j \in 1 .. n_frames - 1 |-> ZeroFrame(feat)]

\* C19: when a slot over a FrameBuffer is reset on done, the observation
\* stored and returned for it holds the new episode's initial frame at
\* history position 0 and zeros at the positions after it, and so does the
\* slot's buffer; at the next step of the slot every frame but the newest
\* is one of those, none a frame of the ended episode
C19_Stored ==
    \A e \in Terminal :
        /\ envs[e.slot].framebuffer = FreshBuffer(e.init)
        /\ mem[_states][e.slot] = F32Mat(reshape_fn(FreshBuffer(e.init)))
        /\ mem[ret.obs][e.slot] = F32Mat(reshape_fn(FreshBuffer(e.init)))

C19_NextStep ==
    (call.op = "step" /\ call'.op = "step") =>
        \A e \in Terminal : \A j \in DOMAIN call'.trace :
            (call'.trace[j].slot = e.slot /\ ~call'.trace[j].done) =>
                \A l \in 2 .. n_frames :
                    envs'[e.slot].framebuffer[l] = FreshBuffer(e.init)[l - 1]

C19_NoLeak == [] C19_Stored /\ [][C19_NextStep]_vars

\* a slot with a history of several frames was reset on done: its
\* observation shows the initial frame and a zero frame behind it
C19_Witness ==
    \E e \in Terminal :
        /\ n_frames > 1
        /\ mem[ret.obs][e.slot][1][1] # 0
        /\ mem[ret.obs][e.slot][1][2] = 0
        /\ e.obs[1][2] # 0

\* the shape of an observation: its rows and the length of a row
ObsShape(obs) == <<Len(obs), Len(obs[1])>>

\* C20: the constructor has made the n_envs slots and reset each: every
\* slot is in a running episode and its initial observation is stored;
\* whatever is called first, and ever after, the pool holds and returns
\* n_envs observations of the shape the template declares
C20_Constructed ==
    /\ call.op = "init" =>
           /\ Len(envs) = n_envs
           /\ Len(call.trace) = n_envs
           /\ \A i \in 1 .. n_envs :
                  /\ call.trace[i].slot = i
                  /\ call.trace[i].reset
                  /\ episode[i] = "active"
                  /\ mem[_states][i] = F32Mat(call.trace[i].robs)
                  /\ mem[_rewards][i] = 0
                  /\ mem[_dones][i] = FALSE
    /\ \A r \in {_states, ret.obs} \ {NoRef} :
           /\ DOMAIN mem[r] = 1 .. n_envs
           /\ \A i \in 1 .. n_envs : ObsShape(mem[r][i]) = space_shape

\* pool_states() right after the constructor returns the initial
\* observations; step() right after it steps environments that are reset
C20_FirstCall ==
    call.op = "init" =>
        /\ call'.op = "pool_states" => mem'[ret'.obs] = mem[_states]
        /\ call'.op = "step" =>
               \A j \in DOMAIN call'.trace :
                   call'.trace[j].before = "active" /\ ~call'.trace[j].after

C20_AlreadyReset == [] C20_Constructed /\ [][C20_FirstCall]_vars

\* a pool of several slots with a history of several frames, as the
\* constructor leaves it
C20_Witness ==
    /\ call.op = "init"
    /\ n_envs > 1
    /\ n_frames > 1
    /\ mem[_states][1] # mem[_states][2]
    /\ ret.obs = NoRef

====
